---- MODULE Spec2Model ----
(***************************************************************************)
(* Request binding of aiopenapi3: the Swagger 2.0 binder                   *)
(* (aiopenapi3/v20/glue.py, class Request) and the OpenAPI 3 binder        *)
(* (openapi3/paths.py, Operation.request).  One call is a small state      *)
(* machine: security binding, parameter binding, body encoding, transport, *)
(* status matching, decoding.  The variable impl says which of the two     *)
(* binders serves the call.                                                *)
(***************************************************************************)
EXTENDS Integers, Sequences, FiniteSets, TLC

VARIABLES
  impl,        \* "v20": aiopenapi3/v20/glue.py, "v3": openapi3/paths.py
  root,        \* the specification: defaults, scheme definitions, the path
  operation,   \* the operation called
  transport,   \* the responses the server may give
  security,    \* the caller's credential map, in insertion order
  parameters,  \* the caller's parameter values
  data,        \* the caller's body data
  req,         \* the request under construction
  resolved,    \* the credential that security binding resolved, if any
  pc,          \* the lifecycle state of the call
  log,         \* the steps taken so far
  stages,      \* the plugin stages fired so far
  failure,     \* the exception that ended the call
  result,      \* the response received
  ret,         \* the value returned to the caller
  loader,      \* the loading of an operation's parameter list
  calls        \* the calls in flight on one operation, each with its own request

vars == <<impl, root, operation, transport, security, parameters, data,
          req, resolved, pc, log, stages, failure, result, ret, loader, calls>>

(***************************************************************************)
(* Bounds of the explored inputs.                                          *)
(***************************************************************************)
MaxAlternatives == 2
MaxDefaults == 1
MaxCredentials == 2
MaxOpParams == 2
MaxPathParams == 1
MaxRawParams == 2
NCalls == 2

(***************************************************************************)
(* Python values.                                                          *)
(***************************************************************************)
\* an absent / None value of a field that otherwise holds a list
None == [isNone |-> TRUE, list |-> <<>>]
Some(l) == [isNone |-> FALSE, list |-> l]

\* truthiness of an optional list: None and [] are falsy
Truthy(x) == (~x.isNone) /\ x.list # <<>>

\* x or []
OrEmpty(x) == IF Truthy(x) THEN x.list ELSE <<>>

\* a dict as a function; d[k] = v
DictSet(d, k, v) == (k :> v) @@ d
EmptyDict == <<>>

Range(s) == {s[i] : i \in 1..Len(s)}

\* sequences without repetition, of length at most n, over the set S
RECURSIVE SeqsUpTo(_, _)
SeqsUpTo(S, n) ==
  IF n = 0 THEN {<<>>}
  ELSE LET shorter == SeqsUpTo(S, n - 1)
       IN  shorter \cup {Append(s, x) : s \in {t \in shorter : Len(t) = n - 1},
                                        x \in S}

Distinct(s) == \A i, j \in 1..Len(s) : i # j => s[i] # s[j]

(***************************************************************************)
(* Failures: the exception a step raises.                                  *)
(***************************************************************************)
NoFailure == [exc |-> "None", msg |-> "", arg |-> <<>>]
Raise(e, m, a) == [exc |-> e, msg |-> m, arg |-> a]

(***************************************************************************)
(* The per-call request under construction.                                *)
(***************************************************************************)
NoAuth == [kind |-> "None", value |-> <<>>]

NewRequest(template) ==
  [url |-> template, params |-> EmptyDict, headers |-> EmptyDict,
   cookies |-> EmptyDict, content |-> <<>>, auth |-> NoAuth,
   cert |-> <<>>]

Ok(r) == [req |-> r, failure |-> NoFailure]
Fail(r, f) == [req |-> r, failure |-> f]
\* the outcome of security binding, with the credential it resolved
Resolved(out, c) == [req |-> out.req, failure |-> out.failure, resolved |-> c]

(***************************************************************************)
(* Security binding, Swagger 2.0 binder.                                   *)
(***************************************************************************)
\* the list without the test for an explicitly empty operation list
_prepare_security_list_no_override(op, rt) ==
  OrEmpty(op.security) \o rt.security

\* the alternatives the credentials are matched against
_prepare_security_list(op, rt) ==
  IF op.security = Some(<<>>)
  THEN <<>>
  ELSE OrEmpty(op.security) \o rt.security

_prepare_secschemes(rt, security_requirement, value, r) ==
  LET ss == rt.securityDefinitions[security_requirement]
      r1 == IF ss.type = "basic"
            THEN [r EXCEPT !.auth = [kind |-> "tuple", value |-> value]]
            ELSE r
      r2 == IF ss.type = "apiKey" /\ ss.in_ = "query"
            THEN [r1 EXCEPT !.params = DictSet(r1.params, ss.name, value)]
            ELSE r1
      r3 == IF ss.type = "apiKey" /\ ss.in_ = "header"
            THEN [r2 EXCEPT !.headers = DictSet(r2.headers, ss.name, value)]
            ELSE r2
      r4 == IF ss.type = "apiKey" /\ ss.in_ = "cookie"
            THEN [r3 EXCEPT !.cookies = (ss.name :> value)]
            ELSE r3
  IN  r4

\* the first alternative of the list whose name is the scheme
RECURSIVE first_requirement(_, _, _)
first_requirement(alternatives, scheme, i) ==
  IF i > Len(alternatives) THEN 0
  ELSE IF alternatives[i] = scheme THEN i
  ELSE first_requirement(alternatives, scheme, i + 1)

\* the loop without its break: the last credential with a matching
\* alternative
RECURSIVE last_credential(_, _, _)
last_credential(creds, alternatives, i) ==
  IF i > Len(creds) THEN 0
  ELSE LET later == last_credential(creds, alternatives, i + 1)
       IN  IF later # 0 THEN later
           ELSE IF first_requirement(alternatives, creds[i].k, 1) # 0 THEN i
           ELSE 0

\* the loop over security.items(): the index of the first credential
\* with a matching alternative, 0 when the loop ends without a break
RECURSIVE first_credential(_, _, _)
first_credential(creds, alternatives, i) ==
  IF i > Len(creds) THEN 0
  ELSE IF first_requirement(alternatives, creds[i].k, 1) # 0 THEN i
  ELSE first_credential(creds, alternatives, i + 1)

_prepare_security(op, rt, creds, r) ==
  LET alternatives == _prepare_security_list(op, rt)
      i == first_credential(creds, alternatives, 1)
  IN  IF creds # <<>> /\ alternatives # <<>>
      THEN IF i # 0
           THEN Resolved(Ok(_prepare_secschemes(rt, creds[i].k, creds[i].v, r)),
                         <<creds[i]>>)
           \* the message is built from self.operation.security.keys(),
           \* and a list (or None) has no keys()
           ELSE Resolved(Fail(r, Raise("AttributeError", "keys", <<>>)), <<>>)
      ELSE Resolved(Ok(r), <<>>)

(***************************************************************************)
(* Security binding, OpenAPI 3 binder.                                     *)
(***************************************************************************)
\* Operation._parse_data: an absent security list is stored as []
\* and an absent parameter list as []
Operation_parse_data(raw) ==
  [raw EXCEPT !.security = IF raw.security.isNone THEN Some(<<>>) ELSE @]

\* str.format of a header format with one value
Format(header_format, value) == header_format \o value

request_secscheme(rt, name, value, r) ==
  LET security_scheme == rt.securityDefinitions[name]
      http == security_scheme.type = "http"
      r1 == IF http /\ security_scheme.scheme = "basic"
            THEN [r EXCEPT !.auth = [kind |-> "HTTPBasicAuth", value |-> value]]
            ELSE r
      header_format == IF security_scheme.bearerFormat # <<>>
                       THEN security_scheme.bearerFormat
                       ELSE <<"Bearer ">>
      r2 == IF http /\ security_scheme.scheme = "bearer"
            THEN [r1 EXCEPT !.headers =
                    DictSet(r1.headers, "Authorization", Format(header_format, value))]
            ELSE r1
      r3 == IF http /\ security_scheme.scheme = "digest"
            THEN [r2 EXCEPT !.auth = [kind |-> "HTTPDigestAuth", value |-> value]]
            ELSE r2
      r4 == IF http /\ security_scheme.scheme = "mutualTLS"
            THEN [r3 EXCEPT !.cert = value]
            ELSE r3
      r5 == IF security_scheme.type = "apiKey" /\ security_scheme.in_ = "query"
            THEN [r4 EXCEPT !.params = DictSet(r4.params, security_scheme.name, value)]
            ELSE r4
      r6 == IF security_scheme.type = "apiKey" /\ security_scheme.in_ = "header"
            THEN [r5 EXCEPT !.headers = DictSet(r5.headers, security_scheme.name, value)]
            ELSE r5
  IN  IF http /\ security_scheme.scheme \notin {"basic", "bearer", "digest", "mutualTLS"}
      THEN Fail(r4, Raise("NotImplementedError", "", <<>>))
      ELSE IF security_scheme.type \in {"oauth2", "openIdConnect"}
      THEN Fail(r6, Raise("NotImplementedError", "", <<>>))
      ELSE Ok(r6)

request_security(op, rt, creds, r) ==
  LET i == first_credential(creds, op.security.list, 1)
  IN  IF creds # <<>> /\ Truthy(op.security)
      THEN IF i # 0
           THEN Resolved(request_secscheme(rt, creds[i].k, creds[i].v, r),
                         <<creds[i]>>)
           \* the message is built from self.security.keys(), and a list
           \* has no keys()
           ELSE Resolved(Fail(r, Raise("AttributeError", "keys", <<>>)), <<>>)
      ELSE Resolved(Ok(r), <<>>)

(***************************************************************************)
(* Parameter binding.                                                      *)
(***************************************************************************)
\* the value the caller supplies under a parameter name
ParamValue(name) == <<"value", name>>

\* the position of a name in an ordered dict of parameters, 0 when absent
RECURSIVE IndexOf(_, _, _)
IndexOf(d, name, i) ==
  IF i > Len(d) THEN 0
  ELSE IF d[i].name = name THEN i
  ELSE IndexOf(d, name, i + 1)

\* dict.update({p.name: p}): a known name keeps its position and takes the
\* new entry, a new name is appended
Update(d, p) ==
  LET i == IndexOf(d, p.name, 1)
  IN  IF i = 0 THEN Append(d, p) ELSE [d EXCEPT ![i] = p]

RECURSIVE UpdateAll(_, _)
UpdateAll(d, ps) ==
  IF ps = <<>> THEN d ELSE UpdateAll(Update(d, Head(ps)), Tail(ps))

\* filter(lambda x: x.in_ != "body", ...)
NotBody(ps) == SelectSeq(ps, LAMBDA x : x.in_ # "body")

\* a path template is a sequence of literal pieces and {name} placeholders
Lit(s) == [ph |-> FALSE, s |-> s]
Placeholder(name) == [ph |-> TRUE, s |-> <<name>>]

HasPlaceholder(url) == \E i \in 1..Len(url) : url[i].ph

\* the first placeholder that the keyword arguments do not resolve, 0 if none
RECURSIVE Unresolved(_, _, _)
Unresolved(url, kwargs, i) ==
  IF i > Len(url) THEN 0
  ELSE IF url[i].ph /\ url[i].s[1] \notin DOMAIN kwargs THEN i
  ELSE Unresolved(url, kwargs, i + 1)

\* str.format(**kwargs): every placeholder is replaced, a placeholder
\* without a keyword argument raises KeyError
format(url, kwargs) ==
  LET u == Unresolved(url, kwargs, 1)
  IN  IF u # 0
      THEN [url |-> url, failure |-> Raise("KeyError", "format", url[u].s)]
      ELSE [url |-> [i \in 1..Len(url) |->
                       IF url[i].ph THEN Lit(kwargs[url[i].s[1]]) ELSE url[i]],
            failure |-> NoFailure]

\* name in parameters
Supplied(params, name) == params.kind # "None" /\ name \in params.names

(* Swagger 2.0 binder *)
_prepare_parameters_accepted(op, rt) ==
  UpdateAll(<<>>, NotBody(op.parameters \o rt.path.parameters))

\* the loop over accepted_parameters.items() from entry i on; st holds the
\* request and the collected path parameters
RECURSIVE _prepare_parameters_loop(_, _, _, _)
_prepare_parameters_loop(accepted, params, i, st) ==
  IF i > Len(accepted) THEN st
  ELSE LET name == accepted[i].name
           spec == accepted[i]
           value == ParamValue(name)
           r == st.req
       IN  IF ~Supplied(params, name)
           THEN IF spec.required = "True"
                THEN [st EXCEPT !.failure =
                        Raise("ValueError", "Required parameter", <<name>>)]
                ELSE _prepare_parameters_loop(accepted, params, i + 1, st)
           ELSE _prepare_parameters_loop(accepted, params, i + 1,
                  [st EXCEPT
                     !.path_parameters =
                        IF spec.in_ = "path" THEN DictSet(@, name, value) ELSE @,
                     !.req =
                        IF spec.in_ = "query"
                        THEN [r EXCEPT !.params = DictSet(r.params, name, value)]
                        ELSE IF spec.in_ = "header"
                        THEN [r EXCEPT !.headers = DictSet(r.headers, name, value)]
                        ELSE IF spec.in_ = "cookie"
                        THEN [r EXCEPT !.cookies = DictSet(r.cookies, name, value)]
                        ELSE r])

_prepare_parameters(op, rt, params, r) ==
  LET accepted == _prepare_parameters_accepted(op, rt)
      st == _prepare_parameters_loop(accepted, params, 1,
              [req |-> r, path_parameters |-> EmptyDict, failure |-> NoFailure])
      f == format(st.req.url, st.path_parameters)
  IN  IF st.failure # NoFailure THEN Fail(st.req, st.failure)
      ELSE IF f.failure # NoFailure THEN Fail(st.req, f.failure)
      ELSE Ok([st.req EXCEPT !.url = f.url])

(* OpenAPI 3 binder *)
request_accepted_parameters(op, rt) ==
  UpdateAll(UpdateAll(<<>>, op.parameters), rt.path.parameters)

RECURSIVE request_parameters_loop(_, _, _, _)
request_parameters_loop(accepted, params, i, st) ==
  IF i > Len(accepted) THEN st
  ELSE LET name == accepted[i].name
           spec == accepted[i]
           value == ParamValue(name)
           r == st.req
           f == format(r.url, name :> value)
       IN  \* "name in None" is a TypeError
           IF params.kind = "None"
           THEN [st EXCEPT !.failure = Raise("TypeError", "NoneType is not iterable", <<>>)]
           ELSE IF spec.required = "True" /\ ~Supplied(params, name)
           THEN [st EXCEPT !.failure =
                   Raise("ValueError", "Required parameter", <<name>>)]
           ELSE IF ~Supplied(params, name)
           THEN request_parameters_loop(accepted, params, i + 1, st)
           ELSE IF spec.in_ = "path"
           THEN IF f.failure # NoFailure
                THEN [st EXCEPT !.failure = f.failure]
                ELSE request_parameters_loop(accepted, params, i + 1,
                       [st EXCEPT !.req = [r EXCEPT !.url = f.url]])
           ELSE request_parameters_loop(accepted, params, i + 1,
                  [st EXCEPT !.req =
                     IF spec.in_ = "query"
                     THEN [r EXCEPT !.params = DictSet(r.params, name, value)]
                     ELSE IF spec.in_ = "header"
                     THEN [r EXCEPT !.headers = DictSet(r.headers, name, value)]
                     ELSE IF spec.in_ = "cookie"
                     THEN [r EXCEPT !.headers = DictSet(r.headers, "Cookie", value)]
                     ELSE r])

request_parameters(op, rt, params, r) ==
  LET accepted == request_accepted_parameters(op, rt)
      st == request_parameters_loop(accepted, params, 1,
              [req |-> r, failure |-> NoFailure])
  IN  [req |-> st.req, failure |-> st.failure]

(***************************************************************************)
(* Body encoding.                                                          *)
(***************************************************************************)
\* json.dumps(data).encode() of a structured value
dumps(v) == <<"json">> \o v

\* data.dict(): a model is serialized as a mapping
dict(d) == IF d = "model" THEN <<"dict">> ELSE <<d>>

\* one stage of self.api.plugins.message: the plugin of the stage is called
\* with the operationId and the value, and its output replaces the value
plugin(stage, v) == <<stage>> \o v
\* the record of a plugin call
fired(stage, op, v) == [stage |-> stage, operationId |-> op.operationId, value |-> v]


\* Request.data: the schema of the first body parameter, 0 when there is none
RECURSIVE body_parameter(_, _)
body_parameter(ps, i) ==
  IF i > Len(ps) THEN 0
  ELSE IF ps[i].in_ = "body" THEN i
  ELSE body_parameter(ps, i + 1)

\* a pipeline that serializes first and runs the sending stage before the
\* marshalled stage
marshal_sending_first(op, v) ==
  LET sending == plugin("sending", dumps(v))
      marshalled == plugin("marshalled", sending)
  IN  [content |-> marshalled,
       stages |-> <<fired("sending", op, dumps(v)),
                    fired("marshalled", op, sending)>>]

\* the marshalled stage on the structured value, json.dumps and encode, then
\* the sending stage on the bytes
marshal(op, v) ==
  LET marshalled == plugin("marshalled", v)
      sending == plugin("sending", dumps(marshalled))
  IN  [content |-> sending,
       stages |-> <<fired("marshalled", op, v),
                    fired("sending", op, dumps(marshalled))>>]

_prepare_body(op, d, r) ==
  LET b == body_parameter(op.parameters, 1)
  IN  IF b = 0 THEN [req |-> r, failure |-> NoFailure, stages |-> <<>>]
      ELSE IF d = "None" /\ op.parameters[b].schema_required
      THEN [req |-> r, stages |-> <<>>,
            failure |-> Raise("ValueError", "Request Body is required", <<>>)]
      ELSE IF "application/json" \in op.consumes
      THEN IF d \in {"dict", "list", "model"}
           THEN LET sent == marshal(op, dict(d))
                IN  [req |-> [r EXCEPT
                       !.content = sent.content,
                       !.headers = DictSet(r.headers, "Content-Type", <<"application/json">>)],
                     failure |-> NoFailure,
                     stages |-> sent.stages]
           ELSE [req |-> r, stages |-> <<>>,
                 failure |-> Raise("TypeError", "data", <<d>>)]
      ELSE [req |-> r, stages |-> <<>>,
            failure |-> Raise("NotImplementedError", "", <<>>)]

request_body(op, d, r) ==
  IF ~op.requestBody.present
  THEN [req |-> r, failure |-> NoFailure, stages |-> <<>>]
  ELSE IF op.requestBody.required /\ d = "None"
  THEN [req |-> r, stages |-> <<>>,
        failure |-> Raise("ValueError", "Request Body is required", <<>>)]
  ELSE IF "application/json" \in op.requestBody.content
  THEN [req |-> [r EXCEPT
           !.content = IF d \in {"dict", "model"} THEN dumps(dict(d)) ELSE @,
           !.headers = DictSet(r.headers, "Content-Type", <<"application/json">>)],
        failure |-> NoFailure, stages |-> <<>>]
  ELSE [req |-> r, stages |-> <<>>,
        failure |-> Raise("NotImplementedError", "", <<>>)]

(***************************************************************************)
(* Response processing.                                                    *)
(***************************************************************************)
\* a Content-Type header value: main/sub, an optional ";..." suffix, and
\* whether it is written in upper case
ContentType(main, sub, suffix, caps) ==
  [present |-> TRUE, main |-> main, sub |-> sub, suffix |-> suffix, caps |-> caps]
NoContentType ==
  [present |-> FALSE, main |-> "", sub |-> "", suffix |-> "", caps |-> FALSE]

lower(ct) == [ct EXCEPT !.caps = FALSE]
\* content_type.partition(";")[0]
partition0(ct) == [ct EXCEPT !.suffix = ""]
\* content_type.split("/")[0] + "/*"
generic_type(ct) == [ct EXCEPT !.sub = "*", !.suffix = ""]

ApplicationJson == ContentType("application", "json", "", FALSE)

\* a lookup that prefers "default" to the entry of the status code
expected_response_default_first(op, status_code) ==
  IF "default" \in DOMAIN op.responses THEN "default"
  ELSE IF status_code \in DOMAIN op.responses THEN status_code
  ELSE ""

\* the status lookup: the entry of the status code, else "default"
expected_response(op, status_code) ==
  IF status_code \in DOMAIN op.responses THEN status_code
  ELSE IF "default" \in DOMAIN op.responses THEN "default"
  ELSE ""

\* the text a value was received as
text_of(v) == v[Len(v)]
\* json.loads(data)
loads(v) == <<"loads">> \o v
\* schema.model(data)
model(schema, v) == <<"model", schema>> \o v

\* json.loads and the model construction on the received text
decode(v, schema) ==
  IF text_of(v) = "not_json"
  THEN [ret |-> <<>>, failure |-> Raise("JSONDecodeError", "", <<>>)]
  ELSE IF text_of(v) = "invalid"
  THEN [ret |-> <<>>, failure |-> Raise("ValidationError", "", <<schema>>)]
  ELSE [ret |-> model(schema, loads(v)), failure |-> NoFailure]

(* Swagger 2.0 binder: everything of _process after the status lookup *)
_process_decode(op, res) ==
  LET e == expected_response(op, res.status_code)
      schema == op.responses[e].schema_
      text == <<res.text>>
      received == plugin("received", text)
      parsed == plugin("parsed", loads(received))
      unmarshalled == plugin("unmarshalled", model(schema, parsed))
  IN  IF res.status_code = "204"
      THEN [ret |-> <<"None">>, failure |-> NoFailure, stages |-> <<>>]
      ELSE IF ~res.content_type.present
      THEN [ret |-> <<>>, stages |-> <<>>,
            failure |-> Raise("AttributeError", "lower", <<>>)]
      ELSE IF partition0(lower(res.content_type)) = ApplicationJson
      THEN IF res.text = "not_json"
           THEN [ret |-> <<>>, failure |-> Raise("JSONDecodeError", "", <<>>),
                 stages |-> <<fired("received", op, text)>>]
           ELSE IF res.text = "invalid"
           THEN [ret |-> <<>>, failure |-> Raise("ValidationError", "", <<schema>>),
                 stages |-> <<fired("received", op, text),
                              fired("parsed", op, loads(received))>>]
           ELSE [ret |-> unmarshalled, failure |-> NoFailure,
                 stages |-> <<fired("received", op, text),
                              fired("parsed", op, loads(received)),
                              fired("unmarshalled", op, model(schema, parsed))>>]
      ELSE [ret |-> <<>>, stages |-> <<>>,
            failure |-> Raise("NotImplementedError", "content_type", <<>>)]

TextAny == ContentType("text", "*", "", FALSE)
MediaOrder == <<ApplicationJson, TextAny>>
\* ",".join(expected_response.content.keys())
options_media(content) == SelectSeq(MediaOrder, LAMBDA k : k \in DOMAIN content)

(* OpenAPI 3 binder: everything of request after the status lookup *)
request_decode(op, res) ==
  LET e == expected_response(op, res.status_code)
      content == op.responses[e].content
      content_type == res.content_type
      expected_media ==
        IF content_type \in DOMAIN content THEN content_type
        ELSE IF generic_type(content_type) \in DOMAIN content
        THEN generic_type(content_type)
        ELSE NoContentType
      d == decode(<<res.text>>, content[expected_media])
  IN  IF ~content_type.present
      THEN [ret |-> <<>>, stages |-> <<>>,
            failure |-> Raise("KeyError", "Content-Type", <<>>)]
      ELSE IF expected_media = NoContentType
      THEN [ret |-> <<>>, stages |-> <<>>,
            failure |-> Raise("RuntimeError", "Unexpected content type",
                              options_media(content))]
      ELSE IF lower(content_type) = ApplicationJson
      THEN [ret |-> d.ret, failure |-> d.failure, stages |-> <<>>]
      ELSE [ret |-> <<>>, stages |-> <<>>,
            failure |-> Raise("NotImplementedError", "", <<>>)]

(***************************************************************************)
(* The call.                                                               *)
(***************************************************************************)
\* an order that binds the parameters before the security
_prepare_parameters_first == <<"parameters", "security", "body", "send">>

\* Request._prepare: security, parameters, body
_prepare == <<"security", "parameters", "body", "send">>
\* Operation.request: security, body, parameters
request == <<"security", "body", "parameters", "send">>

\* a call that goes on after a failure
NextStep_after_failure ==
  IF pc \in {"Done", "Sent", "StatusMatched"} \/ Len(log) >= 4 THEN "none"
  ELSE IF impl = "v20" THEN _prepare[Len(log) + 1]
  ELSE request[Len(log) + 1]

\* the step a call takes next
NextStep == IF pc \in {"Failed", "Done", "Sent", "StatusMatched"} THEN "none"
            ELSE IF impl = "v20" THEN _prepare[Len(log) + 1]
            ELSE request[Len(log) + 1]

StateAfter(step) ==
  CASE step = "security"   -> "SecurityBound"
    [] step = "parameters" -> "ParametersBound"
    [] step = "body"       -> "BodyPrepared"
    [] step = "send"       -> "Sent"

Finish(step, out) ==
  /\ req' = out.req
  /\ failure' = out.failure
  /\ pc' = IF out.failure = NoFailure THEN StateAfter(step) ELSE "Failed"
  /\ log' = Append(log, step)

PrepareSecurity ==
  /\ NextStep = "security"
  /\ LET out == IF impl = "v20"
                THEN _prepare_security(operation, root, security, req)
                ELSE request_security(operation, root, security, req)
     IN  /\ Finish("security", out)
         /\ resolved' = out.resolved
  /\ UNCHANGED <<loader, calls, impl, root, operation, transport, security, parameters, data,
                 stages, result, ret>>

PrepareParameters ==
  /\ NextStep = "parameters"
  /\ Finish("parameters",
            IF impl = "v20"
            THEN _prepare_parameters(operation, root, parameters, req)
            ELSE request_parameters(operation, root, parameters, req))
  /\ UNCHANGED <<loader, calls, resolved, impl, root, operation, transport, security, parameters, data,
                 stages, result, ret>>

PrepareBody ==
  /\ NextStep = "body"
  /\ LET out == IF impl = "v20"
                THEN _prepare_body(operation, data, req)
                ELSE request_body(operation, data, req)
     IN  /\ Finish("body", out)
         /\ stages' = stages \o out.stages
  /\ UNCHANGED <<loader, calls, resolved, impl, root, operation, transport, security, parameters, data,
                 result, ret>>

\* _build_req and the transport call; the server answers
Send ==
  /\ NextStep = "send"
  /\ \E envelope \in transport : result' = envelope
  /\ pc' = "Sent"
  /\ log' = Append(log, "send")
  /\ UNCHANGED <<loader, calls, resolved, impl, root, operation, transport, security, parameters, data,
                 req, stages, failure, ret>>

StatusOrder == <<"200", "204", "404", "default">>
\* ",".join(responses.keys())
options(op) == SelectSeq(StatusOrder, LAMBDA k : k \in DOMAIN op.responses)

MatchStatus ==
  /\ pc = "Sent"
  /\ log' = Append(log, "status")
  /\ IF expected_response(operation, result.status_code) = ""
     THEN /\ pc' = "Failed"
          /\ failure' = Raise(IF impl = "v20" THEN "ValueError" ELSE "RuntimeError",
                              "Unexpected response", options(operation))
     ELSE /\ pc' = "StatusMatched"
          /\ UNCHANGED failure
  /\ UNCHANGED <<loader, calls, resolved, impl, root, operation, transport, security, parameters, data,
                 req, stages, result, ret>>

Decode ==
  /\ pc = "StatusMatched"
  /\ LET out == IF impl = "v20"
                THEN _process_decode(operation, result)
                ELSE request_decode(operation, result)
     IN  /\ failure' = out.failure
         /\ pc' = IF out.failure = NoFailure THEN "Done" ELSE "Failed"
         /\ ret' = IF out.failure = NoFailure THEN out.ret ELSE ret
         /\ stages' = stages \o out.stages
         /\ log' = Append(log, "decode")
  /\ UNCHANGED <<loader, calls, resolved, impl, root, operation, transport, security, parameters, data,
                 req, result>>

Next ==
  \/ PrepareSecurity
  \/ PrepareParameters
  \/ PrepareBody
  \/ Send
  \/ MatchStatus
  \/ Decode

(***************************************************************************)
(* The inputs explored: specifications, operations and caller arguments.   *)
(***************************************************************************)
Impls == {"v20", "v3"}

SchemeNames == {"s1", "s2", "s3"}
CredentialKeys == SchemeNames \cup {"other"}

\* the value the caller stores under a credential key
CredValue(k) == <<"secret", k>>

Scheme(type, scheme, in_, name, bearerFormat) ==
  [type |-> type, scheme |-> scheme, in_ |-> in_, name |-> name,
   bearerFormat |-> bearerFormat]

\* Swagger 2.0 security scheme objects
SchemeKinds20 ==
  {Scheme("basic", "", "", "", <<>>),
   Scheme("apiKey", "", "query", "key", <<>>),
   Scheme("apiKey", "", "header", "X-Key", <<>>),
   Scheme("apiKey", "", "cookie", "sid", <<>>),
   Scheme("oauth2", "", "", "", <<>>)}

\* OpenAPI 3 security scheme objects
SchemeKinds3 ==
  {Scheme("http", "basic", "", "", <<>>),
   Scheme("http", "bearer", "", "", <<>>),
   Scheme("http", "bearer", "", "", <<"Token ">>),
   Scheme("http", "digest", "", "", <<>>),
   Scheme("http", "mutualTLS", "", "", <<>>),
   Scheme("http", "negotiate", "", "", <<>>),
   Scheme("apiKey", "", "query", "key", <<>>),
   Scheme("apiKey", "", "header", "X-Key", <<>>),
   Scheme("apiKey", "", "cookie", "sid", <<>>),
   Scheme("oauth2", "", "", "", <<>>),
   Scheme("openIdConnect", "", "", "", <<>>)}

SchemeKinds(i) == IF i = "v20" THEN SchemeKinds20 ELSE SchemeKinds3

\* scheme s1 is of any kind, s2 an apiKey in a header, s3 basic
Definitions(i, kind) ==
  [n \in SchemeNames |->
     IF n = "s1" THEN kind
     ELSE IF n = "s2" THEN Scheme("apiKey", "", "header", "X-Api", <<>>)
     ELSE IF i = "v20" THEN Scheme("basic", "", "", "", <<>>)
     ELSE Scheme("http", "basic", "", "", <<>>)]

CredentialMaps ==
  {[j \in 1..Len(ks) |-> [k |-> ks[j], v |-> CredValue(ks[j])]] :
     ks \in {t \in SeqsUpTo(CredentialKeys, MaxCredentials) : Distinct(t)}}

AlternativeLists ==
  {None} \cup {Some(l) : l \in {t \in SeqsUpTo(SchemeNames, MaxAlternatives) : Distinct(t)}}

DefaultLists == {t \in SeqsUpTo(SchemeNames, MaxDefaults) : Distinct(t)}

SecurityInputs(i) ==
  [opsec : AlternativeLists, rootsec : DefaultLists,
   kind : SchemeKinds(i), creds : CredentialMaps]

NoSecurity(i) ==
  [opsec |-> Some(<<>>), rootsec |-> <<>>,
   kind |-> Scheme("apiKey", "", "cookie", "sid", <<>>), creds |-> <<>>]

CookieKey(i) ==
  [opsec |-> Some(<<"s1">>), rootsec |-> <<>>,
   kind |-> Scheme("apiKey", "", "cookie", "sid", <<>>),
   creds |-> <<[k |-> "s1", v |-> CredValue("s1")]>>]

Param(name, in_, required) ==
  [name |-> name, in_ |-> in_, required |-> required, schema_required |-> FALSE]

ParamNames == {"a", "b"}

\* a check that rejects only an explicit required = False
Parameter_parse_data_not_false(p) == ~(p.in_ = "path" /\ p.required = "False")

\* Parameter._parse_data: a path parameter must have required = True
Parameter_parse_data(p) == ~(p.in_ = "path" /\ p.required # "True")

ParamPool ==
  {p \in {Param(n, l, r) : n \in ParamNames,
                           l \in {"path", "query", "header", "cookie"},
                           r \in {"True", "False"}} :
     Parameter_parse_data(p)}

DistinctNames(ps) == \A j, k \in 1..Len(ps) : j # k => ps[j].name # ps[k].name

Templates ==
  {<<Lit(<<"/x">>)>>,
   <<Lit(<<"/x/">>), Placeholder("a")>>,
   <<Lit(<<"/">>), Placeholder("a"), Lit(<<"/">>), Placeholder("b")>>}

\* the caller's parameter argument: None, or a dict of some names
CallerParameters ==
  {[kind |-> "None", names |-> {}]} \cup
  {[kind |-> "dict", names |-> ns] : ns \in SUBSET (ParamNames \cup {"z"})}

ParameterInputs ==
  [opparams : {t \in SeqsUpTo(ParamPool, MaxOpParams) : DistinctNames(t)},
   pathparams : {t \in SeqsUpTo(ParamPool, MaxPathParams) : DistinctNames(t)},
   template : Templates, caller : CallerParameters]

NoParameters ==
  [opparams |-> <<>>, pathparams |-> <<>>, template |-> <<Lit(<<"/x">>)>>,
   caller |-> [kind |-> "None", names |-> {}]]

SomeParameters ==
  [opparams |-> <<Param("a", "query", "True"), Param("b", "cookie", "False")>>,
   pathparams |-> <<>>, template |-> <<Lit(<<"/x">>)>>,
   caller |-> [kind |-> "dict", names |-> {"a", "b"}]]

DataKinds == {"None", "dict", "list", "model", "number"}

BodyInputs ==
  [declared : BOOLEAN, required : BOOLEAN, schema_required : BOOLEAN,
   json : BOOLEAN, data : DataKinds]

NoBody ==
  [declared |-> FALSE, required |-> FALSE, schema_required |-> FALSE,
   json |-> TRUE, data |-> "None"]

Response(schema) ==
  [schema_ |-> schema, content |-> (ApplicationJson :> schema)]

Envelope(status_code, content_type, text) ==
  [status_code |-> status_code, content_type |-> content_type, text |-> text]

OneResponse ==
  [responses |-> ("200" :> Response("A")),
   transport |-> {Envelope("200", ApplicationJson, "valid")}]

ResponseInputs ==
  {OneResponse,
   [responses |-> ("200" :> Response("A") @@ "default" :> Response("B")),
    transport |-> {Envelope(st, ct, tx) :
                     st \in {"200", "204", "404"},
                     ct \in {ApplicationJson, NoContentType,
                             ContentType("application", "json", "; charset=utf-8", FALSE),
                             ContentType("text", "plain", "", FALSE)},
                     tx \in {"valid", "invalid", "not_json"}}],
   [responses |-> ("200" :> Response("A")),
    transport |-> {Envelope(st, ApplicationJson, "valid") :
                     st \in {"200", "204", "404"}}],
   [responses |-> ("200" :> [schema_ |-> "A",
                             content |-> (ApplicationJson :> "A" @@ TextAny :> "C")]),
    transport |-> {Envelope("200", ct, "valid") :
                     ct \in {ContentType("application", "json", "; charset=utf-8", FALSE),
                             ContentType("application", "json", "", TRUE),
                             ContentType("text", "plain", "", FALSE),
                             ContentType("image", "png", "", FALSE)}}]}

\* the operation object as the loader hands it to the binder
Operation(i, sec, par, body, resp) ==
  LET raw ==
        [operationId |-> "op",
         raw_element |-> [security |-> sec.opsec],
         security |-> sec.opsec,
         parameters |->
           IF i = "v20" /\ body.declared
           THEN Append(par.opparams,
                       [name |-> "body", in_ |-> "body",
                        required |-> IF body.required THEN "True" ELSE "False",
                        schema_required |-> body.schema_required])
           ELSE par.opparams,
         consumes |-> IF i = "v20"
                      THEN IF body.json THEN {"application/json"} ELSE {"text/plain"}
                      ELSE {},
         requestBody |->
           IF i = "v3" /\ body.declared
           THEN [present |-> TRUE, required |-> body.required,
                 content |-> IF body.json THEN {"application/json"} ELSE {"text/plain"}]
           ELSE [present |-> FALSE, required |-> FALSE, content |-> {}],
         responses |-> resp.responses]
  IN  IF i = "v3" THEN Operation_parse_data(raw) ELSE raw

\* nothing is being loaded
NotLoading == [raw |-> None, parsed |-> <<>>, pc |-> "Loaded", error |-> NoFailure]

\* one call on a loaded operation
InitCall(i, sec, par, body, resp) ==
  /\ impl = i
  /\ root = [security |-> sec.rootsec,
             securityDefinitions |-> Definitions(i, sec.kind),
             path |-> [parameters |-> par.pathparams, template |-> par.template]]
  /\ operation = Operation(i, sec, par, body, resp)
  /\ transport = resp.transport
  /\ security = sec.creds
  /\ parameters = par.caller
  /\ data = body.data
  /\ req = NewRequest(par.template)
  /\ resolved = <<>>
  /\ pc = "Init"
  /\ log = <<>>
  /\ stages = <<>>
  /\ failure = NoFailure
  /\ result = Envelope("", NoContentType, "")
  /\ ret = <<>>

InitWith(i, sec, par, body, resp) ==
  /\ loader = NotLoading
  /\ calls = <<>>
  /\ InitCall(i, sec, par, body, resp)

\* calls whose security inputs vary
InitSecurity ==
  \E i \in Impls : \E sec \in SecurityInputs(i) :
  \E par \in {NoParameters, SomeParameters} :
    InitWith(i, sec, par, NoBody, OneResponse)

SpecSecurity == InitSecurity /\ [][Next]_vars

\* calls whose parameter inputs vary
InitParameters ==
  \E i \in Impls : \E par \in ParameterInputs :
    InitWith(i, NoSecurity(i), par, NoBody, OneResponse)

SpecParameters == InitParameters /\ [][Next]_vars

\* calls whose body and response inputs vary
Init ==
  \E i \in Impls : \E sec \in {NoSecurity(i), CookieKey(i)} :
  \E par \in {NoParameters, SomeParameters,
              [SomeParameters EXCEPT !.caller.names = {"b"}]} :
  \E body \in BodyInputs : \E resp \in ResponseInputs :
    InitWith(i, sec, par, body, resp)

Spec == Init /\ [][Next]_vars

(***************************************************************************)
(* Loading an operation's parameter list.                                  *)
(***************************************************************************)
\* self._get('required', bool): True, False, or None when the field is absent
RequiredFlags == {"True", "False", "None"}

RawParams ==
  {Param(n, l, r) : n \in ParamNames, l \in {"path", "query", "header", "cookie"},
                    r \in RequiredFlags}

SpecError == Raise("SpecError", "must be required since it is in the path", <<>>)

\* the Parameter object under construction
NextRaw == loader.raw.list[Len(loader.parsed) + 1]

\* one Parameter object of the list is constructed
LoadParameter ==
  /\ loader.pc = "Loading"
  /\ Len(loader.parsed) < Len(loader.raw.list)
  /\ loader' = IF Parameter_parse_data(NextRaw)
                THEN [loader EXCEPT !.parsed = Append(@, NextRaw)]
                ELSE [loader EXCEPT !.pc = "Failed", !.error = SpecError]
  /\ UNCHANGED <<calls, impl, root, operation, transport, security, parameters, data,
                 req, resolved, pc, log, stages, failure, result, ret>>

\* Operation._parse_data once its parameters are constructed
LoadOperation ==
  /\ loader.pc = "Loading"
  /\ Len(loader.parsed) = Len(loader.raw.list)
  /\ loader' = [loader EXCEPT !.pc = "Loaded"]
  /\ operation' = [Operation_parse_data(operation) EXCEPT !.parameters =
                     \* if self.parameters is None: self.parameters = []
                     IF loader.raw.isNone THEN <<>> ELSE loader.parsed]
  /\ UNCHANGED <<calls, impl, root, transport, security, parameters, data,
                 req, resolved, pc, log, stages, failure, result, ret>>

NextLoad == LoadParameter \/ LoadOperation

InitLoad ==
  /\ \E raw \in {None} \cup {Some(l) : l \in SeqsUpTo(RawParams, MaxRawParams)} :
       loader = [raw |-> raw, parsed |-> <<>>, pc |-> "Loading", error |-> NoFailure]
  /\ calls = <<>>
  /\ impl = "v3"
  /\ root = [security |-> <<>>, securityDefinitions |-> Definitions("v3", NoSecurity("v3").kind),
             path |-> [parameters |-> <<>>, template |-> <<Lit(<<"/x">>)>>]]
  /\ operation = [operationId |-> "op", raw_element |-> [security |-> None],
                  security |-> None, parameters |-> <<>>, consumes |-> {},
                  requestBody |-> [present |-> FALSE, required |-> FALSE, content |-> {}],
                  responses |-> OneResponse.responses]
  /\ transport = OneResponse.transport
  /\ security = <<>>
  /\ parameters = [kind |-> "None", names |-> {}]
  /\ data = "None"
  /\ req = NewRequest(<<Lit(<<"/x">>)>>)
  /\ resolved = <<>>
  /\ pc = "Init"
  /\ log = <<>>
  /\ stages = <<>>
  /\ failure = NoFailure
  /\ result = Envelope("", NoContentType, "")
  /\ ret = <<>>

SpecLoad == InitLoad /\ [][NextLoad]_vars

(***************************************************************************)
(* Calls in flight on one operation.  Each call has its own request (the   *)
(* locals of Operation.request, the req of its own Request object); the    *)
(* operation, the path and the specification are shared, and so is the     *)
(* credential map of the Swagger 2.0 binder (self.api._security).          *)
(***************************************************************************)
\* a += b: the left operand is extended in place
list_extend(a, b) == [value |-> a \o b, left |-> a \o b]

\* a + b: a new list, the operands are left as they are
list_add(a, b) == [value |-> a \o b, left |-> a]

\* the operation object after a step of the Swagger 2.0 binder has read it
_prepare_operation(op, rt, step) ==
  IF step = "security" /\ op.security # Some(<<>>) /\ Truthy(op.security)
  THEN [op EXCEPT !.security = Some(list_add(@.list, rt.security).left)]
  ELSE IF step = "parameters"
  THEN [op EXCEPT !.parameters = list_add(@, rt.path.parameters).left]
  ELSE op

\* the operation object after a step of the OpenAPI 3 binder has read it:
\* the step builds its dicts from the lists and writes only locals
request_operation(op, rt, step) == op

\* the credential map a call binds: the API's in the Swagger 2.0 binder, the
\* call's own argument in the OpenAPI 3 binder
call_security(call) == IF impl = "v20" THEN security ELSE call.security

\* the outcome of one step of a call on its own request
call_step(call, step, r) ==
  CASE step = "security" ->
         LET out == IF impl = "v20"
                    THEN _prepare_security(operation, root, call_security(call), r)
                    ELSE request_security(operation, root, call_security(call), r)
         IN  [req |-> out.req, failure |-> out.failure]
    [] step = "parameters" ->
         IF impl = "v20"
         THEN _prepare_parameters(operation, root, call.parameters, r)
         ELSE request_parameters(operation, root, call.parameters, r)
    [] step = "body" ->
         LET out == IF impl = "v20"
                    THEN _prepare_body(operation, call.data, r)
                    ELSE request_body(operation, call.data, r)
         IN  [req |-> out.req, failure |-> out.failure]
    \* _build_req and the transport call read the request
    [] step = "send" -> [req |-> r, failure |-> NoFailure]

\* the step the call takes next
call_next(call) ==
  IF call.pc \in {"Failed", "Sent"} THEN "none"
  ELSE IF impl = "v20" THEN _prepare[Len(call.log) + 1]
  ELSE request[Len(call.log) + 1]

CallBind(c, step) ==
  /\ call_next(calls[c]) = step
  /\ LET out == call_step(calls[c], step, calls[c].req)
     IN  calls' = [calls EXCEPT ![c] =
                     [@ EXCEPT !.req = out.req,
                               !.failure = out.failure,
                               !.pc = IF out.failure = NoFailure
                                      THEN StateAfter(step) ELSE "Failed",
                               !.log = Append(@, step)]]
  /\ operation' = IF impl = "v20"
                   THEN _prepare_operation(operation, root, step)
                   ELSE request_operation(operation, root, step)
  /\ UNCHANGED <<loader, impl, root, transport, security, parameters, data,
                 req, resolved, pc, log, stages, failure, result, ret>>

CallSecurity == \E c \in DOMAIN calls : CallBind(c, "security")
CallParameters == \E c \in DOMAIN calls : CallBind(c, "parameters")
CallBody == \E c \in DOMAIN calls : CallBind(c, "body")

\* the call hands its request to the transport
CallSend ==
  \E c \in DOMAIN calls :
    /\ call_next(calls[c]) = "send"
    /\ calls' = [calls EXCEPT ![c] = [@ EXCEPT !.pc = "Sent", !.log = Append(@, "send")]]
    /\ UNCHANGED <<loader, impl, root, operation, transport, security, parameters, data,
                   req, resolved, pc, log, stages, failure, result, ret>>

NextConcurrent == CallSecurity \/ CallParameters \/ CallBody \/ CallSend

\* the arguments of one call
CallInputs ==
  [security : {<<>>, <<[k |-> "s1", v |-> CredValue("s1")]>>,
               <<[k |-> "s2", v |-> CredValue("s2")]>>},
   parameters : {[kind |-> "dict", names |-> {"a"}],
                 [kind |-> "dict", names |-> {"a", "b"}]},
   data : {"dict", "list"}]

NewCall(in, template) ==
  [security |-> in.security, parameters |-> in.parameters, data |-> in.data,
   req |-> NewRequest(template), pc |-> "Init", log |-> <<>>, failure |-> NoFailure]

\* the operation the calls share: a path parameter and a query parameter, a
\* JSON body, its own security list or the specification's
SharedSecurity(i) ==
  [opsec : {Some(<<"s1">>), None}, rootsec : {<<"s2">>},
   kind : {Scheme("apiKey", "", "query", "key", <<>>)},
   creds : IF i = "v20"
           THEN {<<[k |-> "s1", v |-> CredValue("s1")]>>,
                 <<[k |-> "s2", v |-> CredValue("s2")]>>}
           ELSE {<<>>}]

SharedParameters ==
  [opparams |-> <<Param("a", "path", "True")>>,
   pathparams |-> <<Param("b", "query", "False")>>,
   template |-> <<Lit(<<"/x/">>), Placeholder("a")>>,
   caller |-> [kind |-> "None", names |-> {}]]

SharedBody ==
  [declared |-> TRUE, required |-> FALSE, schema_required |-> FALSE,
   json |-> TRUE, data |-> "None"]

InitConcurrent ==
  \E i \in Impls : \E sec \in SharedSecurity(i) :
  \E ins \in [1..NCalls -> CallInputs] :
    /\ InitCall(i, sec, SharedParameters, SharedBody, OneResponse)
    /\ loader = NotLoading
    /\ \A c \in 1..NCalls : i = "v20" => ins[c].security = sec.creds
    /\ calls = [c \in 1..NCalls |-> NewCall(ins[c], SharedParameters.template)]

SpecConcurrent == InitConcurrent /\ [][NextConcurrent]_vars

TypeOK == pc \in {"Init", "SecurityBound", "ParametersBound", "BodyPrepared",
                  "Sent", "StatusMatched", "Done", "Failed"}

(***************************************************************************)
(* Vocabulary of the properties.                                           *)
(***************************************************************************)
IsPrefix(s, t) == Len(s) <= Len(t) /\ \A j \in 1..Len(s) : s[j] = t[j]

\* the step has acted
Ran(step) == step \in Range(log)
\* the call failed in the step
FailedIn(step) == pc = "Failed" /\ log # <<>> /\ log[Len(log)] = step

\* a value holds the credential stored under key k, bare or formatted
HoldsCredential(value, k) ==
  \E j \in 1..Len(value) : SubSeq(value, j, Len(value)) = CredValue(k)

\* the request carries the credential stored under key k
Carries(r, k) ==
  \/ HoldsCredential(r.auth.value, k)
  \/ HoldsCredential(r.cert, k)
  \/ \E n \in DOMAIN r.params : HoldsCredential(r.params[n], k)
  \/ \E n \in DOMAIN r.headers : HoldsCredential(r.headers[n], k)
  \/ \E n \in DOMAIN r.cookies : HoldsCredential(r.cookies[n], k)

\* the wire names of the apiKey schemes of the specification
WireNames == {root.securityDefinitions[n].name : n \in SchemeNames} \ {""}

\* the request carries no credential of any kind
NoCredential(r) ==
  /\ r.auth = NoAuth
  /\ r.cert = <<>>
  /\ "Authorization" \notin DOMAIN r.headers
  /\ (DOMAIN r.params \cup DOMAIN r.headers \cup DOMAIN r.cookies) \cap WireNames = {}
  /\ \A k \in CredentialKeys : ~Carries(r, k)

\* the alternatives the binder matches the credentials against
Alternatives ==
  IF impl = "v20" THEN _prepare_security_list(operation, root)
  ELSE operation.security.list

\* the credentials whose key names one of the alternatives
Matching(creds, alternatives) ==
  {j \in 1..Len(creds) : creds[j].k \in Range(alternatives)}

\* the first credential, in insertion order, that names an alternative
FirstMatch(creds, alternatives) ==
  LET m == Matching(creds, alternatives)
  IN  IF m = {} THEN <<>>
      ELSE <<creds[CHOOSE j \in m : \A k \in m : j <= k]>>

(***************************************************************************)
(* C1: every call takes its steps in the order security binding,           *)
(* parameter binding, body encoding, transport, status matching,           *)
(* decoding, each at most once and none skipped.                           *)
(***************************************************************************)
LifecycleOrder == <<"security", "parameters", "body", "send", "status", "decode">>

C1_FixedOrder == IsPrefix(log, LifecycleOrder)

(***************************************************************************)
(* C2: a name declared both on the operation and on the path is accepted   *)
(* with the operation's entry.                                             *)
(***************************************************************************)
AcceptedParameters ==
  IF impl = "v20" THEN _prepare_parameters_accepted(operation, root)
  ELSE request_accepted_parameters(operation, root)

Accepted(name) == AcceptedParameters[IndexOf(AcceptedParameters, name, 1)]
AcceptedNames == {AcceptedParameters[j].name : j \in 1..Len(AcceptedParameters)}

C2_OperationOverridesPath ==
  Ran("parameters") =>
    \A j \in 1..Len(operation.parameters) :
      LET p == operation.parameters[j]
      IN  (p.in_ # "body" /\ \E q \in Range(root.path.parameters) : q.name = p.name)
            => Accepted(p.name) = p

(***************************************************************************)
(* C3: a call to an operation whose security list is empty carries no      *)
(* credential, whatever the credential map holds, and security binding     *)
(* does not fail.                                                          *)
(***************************************************************************)
C3_EmptyListNoCredential ==
  operation.security = Some(<<>>) =>
    /\ NoCredential(req)
    /\ resolved = <<>>
    /\ ~FailedIn("security")

C3_Witness ==
  /\ operation.security = Some(<<>>)
  /\ pc = "Sent"
  /\ Len(security) = 2
  /\ security[1].k \in Range(root.security)
  /\ DOMAIN req.params # {}

(***************************************************************************)
(* C4: the credentials are matched against the operation's own list when   *)
(* the operation declares one, and against the spec-wide defaults only     *)
(* when it declares none.                                                  *)
(***************************************************************************)
DeclaredAlternatives ==
  IF operation.raw_element.security.isNone
  THEN root.security
  ELSE operation.raw_element.security.list

C4_OwnListElseDefaults ==
  Ran("security") => resolved = FirstMatch(security, DeclaredAlternatives)

(***************************************************************************)
(* C5: when some credential key names an alternative, security binding     *)
(* resolves the first such key in insertion order, binds the value stored  *)
(* under that key, and applies no other credential.                        *)
(***************************************************************************)
C5_FirstMatchWins ==
  (Ran("security") /\ Matching(security, Alternatives) # {}) =>
    /\ resolved = FirstMatch(security, Alternatives)
    /\ \A k \in CredentialKeys :
         Carries(req, k) => (k = resolved[1].k /\ resolved[1].v = CredValue(k))

C5_Witness ==
  /\ pc = "SecurityBound"
  /\ Len(security) = 2
  /\ Cardinality(Matching(security, Alternatives)) = 2
  /\ resolved = <<security[1]>>
  /\ Carries(req, security[1].k)
  /\ ~Carries(req, security[2].k)

(***************************************************************************)
(* C6: security binding fails with UnsatisfiedSecurity, naming the         *)
(* accepted alternatives, exactly when alternatives and credentials are    *)
(* both non-empty and no key matches; an empty credential map never fails. *)
(***************************************************************************)
UnsatisfiedSecurity(f) ==
  /\ f.exc = "ValueError"
  /\ f.msg = "No security requirement satisfied"
  /\ Range(f.arg) = Range(Alternatives)

C6_UnsatisfiedSecurity ==
  Ran("security") =>
    /\ (FailedIn("security") /\ UnsatisfiedSecurity(failure))
         <=> (Alternatives # <<>> /\ security # <<>>
              /\ Matching(security, Alternatives) = {})
    /\ security = <<>> => ~FailedIn("security")

(***************************************************************************)
(* Vocabulary of the parameter properties.                                 *)
(***************************************************************************)
\* the accepted parameters the caller supplies
SuppliedAccepted == {n \in AcceptedNames : Supplied(parameters, n)}

\* the required accepted parameters the caller does not supply
AbsentRequired ==
  {n \in AcceptedNames : Accepted(n).required = "True" /\ ~Supplied(parameters, n)}

\* the names of the placeholders of the path template
PlaceholderNames ==
  {root.path.template[j].s[1] : j \in {k \in 1..Len(root.path.template) :
                                         root.path.template[k].ph}}

\* every placeholder of the template is an accepted path parameter
PlaceholdersDeclared ==
  \A n \in PlaceholderNames : n \in AcceptedNames /\ Accepted(n).in_ = "path"

\* every accepted path parameter is a placeholder of the template
PathParametersUsed ==
  \A n \in AcceptedNames : Accepted(n).in_ = "path" => n \in PlaceholderNames

\* the failure of a required parameter or of an unresolved placeholder
MissingParameter(f) ==
  \/ f.exc = "ValueError" /\ f.msg = "Required parameter"
  \/ f.exc = "KeyError" /\ f.msg = "format"

\* the value of the parameter stands in the path
InPath(url, name) == \E j \in 1..Len(url) : url[j] = Lit(ParamValue(name))

(***************************************************************************)
(* C7: a call that supplies every required parameter binds, whatever the   *)
(* number of path parameters, and its path has no placeholder left; a      *)
(* placeholder that nothing resolves is a MissingParameter failure, and no *)
(* request is sent with a placeholder in its path.                         *)
(***************************************************************************)
C7_NoPlaceholderLeft ==
  /\ (Ran("parameters") /\ AbsentRequired = {} /\ PlaceholdersDeclared
      /\ PathParametersUsed /\ parameters.kind = "dict")
       => (~FailedIn("parameters") /\ ~HasPlaceholder(req.url))
  /\ (FailedIn("parameters") /\ AbsentRequired = {} /\ parameters.kind = "dict")
       => MissingParameter(failure)
  /\ Ran("send") => ~HasPlaceholder(req.url)

(***************************************************************************)
(* C8: parameter binding writes exactly the supplied values of accepted    *)
(* names, each under its own name in the slot of its declared location;    *)
(* a supplied name that is not accepted writes nothing and fails nothing.  *)
(***************************************************************************)
\* the names under which a slot holds a caller-supplied parameter value
ParameterEntries(slot) ==
  {n \in DOMAIN slot : \E m \in ParamNames \cup {"z"} : slot[n] = ParamValue(m)}

SuppliedAt(location) == {n \in SuppliedAccepted : Accepted(n).in_ = location}

C8_ExactWrites ==
  (Ran("parameters") /\ ~FailedIn("parameters")) =>
    /\ ParameterEntries(req.params) = SuppliedAt("query")
    /\ ParameterEntries(req.headers) = SuppliedAt("header")
    /\ ParameterEntries(req.cookies) = SuppliedAt("cookie")
    /\ \A n \in SuppliedAt("query") : req.params[n] = ParamValue(n)
    /\ \A n \in SuppliedAt("header") : req.headers[n] = ParamValue(n)
    /\ \A n \in SuppliedAt("cookie") : req.cookies[n] = ParamValue(n)
    /\ \A n \in ParamNames \cup {"z"} :
         InPath(req.url, n) <=> (n \in SuppliedAt("path") /\ n \in PlaceholderNames)

(***************************************************************************)
(* C9: an accepted parameter that the caller does not supply fails the     *)
(* call with MissingParameter naming it when it is required, and is        *)
(* skipped when it is not, the other parameters still being bound.         *)
(***************************************************************************)
C9_AbsentParameter ==
  Ran("parameters") =>
    /\ AbsentRequired # {} =>
         /\ FailedIn("parameters")
         /\ failure.exc = "ValueError"
         /\ failure.msg = "Required parameter"
         /\ Len(failure.arg) = 1
         /\ failure.arg[1] \in AbsentRequired
    /\ (AbsentRequired = {} /\ PlaceholdersDeclared /\ PathParametersUsed) =>
         /\ ~FailedIn("parameters")
         /\ \A n \in SuppliedAccepted :
              \/ n \in DOMAIN req.params /\ req.params[n] = ParamValue(n)
              \/ n \in DOMAIN req.headers /\ req.headers[n] = ParamValue(n)
              \/ n \in DOMAIN req.cookies /\ req.cookies[n] = ParamValue(n)
              \/ \E h \in DOMAIN req.headers : req.headers[h] = ParamValue(n)
              \/ Accepted(n).in_ = "path"

(***************************************************************************)
(* C10: for a resolved apiKey scheme, security binding writes the          *)
(* credential value under the scheme's wire name into the slot of the      *)
(* scheme's location, and nothing else.                                    *)
(***************************************************************************)
ApiKeyRequest(ss, value) ==
  LET r == NewRequest(root.path.template)
  IN  CASE ss.in_ = "query"  -> [r EXCEPT !.params = (ss.name :> value)]
        [] ss.in_ = "header" -> [r EXCEPT !.headers = (ss.name :> value)]
        [] ss.in_ = "cookie" -> [r EXCEPT !.cookies = (ss.name :> value)]

C10_ApiKeyPlacement ==
  (Ran("security") /\ resolved # <<>>
   /\ root.securityDefinitions[resolved[1].k].type = "apiKey") =>
    /\ ~FailedIn("security")
    /\ log = <<"security">> =>
         req = ApiKeyRequest(root.securityDefinitions[resolved[1].k], resolved[1].v)

(***************************************************************************)
(* C11: a resolved scheme of type oauth2 or openIdConnect fails the call   *)
(* in security binding with UnsupportedScheme; no parameter is bound and   *)
(* nothing is sent.                                                        *)
(***************************************************************************)
UnsupportedScheme(f) == f.exc = "NotImplementedError"

C11_UnsupportedScheme ==
  (Ran("security") /\ resolved # <<>>
   /\ root.securityDefinitions[resolved[1].k].type \in {"oauth2", "openIdConnect"}) =>
    /\ FailedIn("security")
    /\ UnsupportedScheme(failure)
    /\ ~Ran("parameters")
    /\ ~Ran("send")

(***************************************************************************)
(* Vocabulary of the body properties.                                      *)
(***************************************************************************)
\* the operation declares a request body
BodyDeclared ==
  IF impl = "v20" THEN body_parameter(operation.parameters, 1) # 0
  ELSE operation.requestBody.present

\* the required flag of the body itself
BodyRequired ==
  IF impl = "v20"
  THEN operation.parameters[body_parameter(operation.parameters, 1)].required = "True"
  ELSE operation.requestBody.required

\* the body is declared as application/json
BodyJson ==
  IF impl = "v20" THEN "application/json" \in operation.consumes
  ELSE "application/json" \in operation.requestBody.content

MissingBody(f) == f.exc = "ValueError" /\ f.msg = "Request Body is required"

(***************************************************************************)
(* C12: in the Swagger 2.0 binder, a declared body without caller data     *)
(* fails with MissingBody exactly when the body's own required flag is     *)
(* set; a body that is not required proceeds without failure and without   *)
(* a body.                                                                 *)
(***************************************************************************)
C12_MissingBody ==
  (impl = "v20" /\ Ran("body") /\ BodyDeclared /\ BodyJson /\ data = "None") =>
    /\ BodyRequired => (FailedIn("body") /\ MissingBody(failure))
    /\ ~BodyRequired => (~FailedIn("body") /\ req.content = <<>>)

(***************************************************************************)
(* C13: with an application/json body declared, data that is neither a     *)
(* mapping, a sequence nor a model fails the call with TypeMismatch and    *)
(* is never sent.                                                          *)
(***************************************************************************)
TypeMismatch(f) == f.exc = "TypeError"

C13_TypeMismatch ==
  (Ran("body") /\ BodyDeclared /\ BodyJson /\ data = "number") =>
    /\ FailedIn("body")
    /\ TypeMismatch(failure)
    /\ ~Ran("send")


\* the status entries the operation declares, and the received status code
Declared(k) == k \in DOMAIN operation.responses
Received == result.status_code
\* the entry the claim selects: the received code, else "default", else none
SelectedEntry ==
  IF Declared(Received) THEN Received
  ELSE IF Declared("default") THEN "default"
  ELSE ""
\* the schema the entry decodes JSON with
EntrySchema(k) ==
  IF impl = "v20" THEN operation.responses[k].schema_
  ELSE operation.responses[k].content[ApplicationJson]
\* the schema of the typed result
ResultSchema ==
  LET j == CHOOSE j \in 1..Len(ret) : ret[j] = "model" IN ret[j + 1]
TypedResult == pc = "Done" /\ "model" \in Range(ret)
UnexpectedStatus(f) ==
  /\ f.exc \in {"ValueError", "RuntimeError"}
  /\ f.msg = "Unexpected response"

(***************************************************************************)
(* C14: the status lookup selects the entry whose key equals the received  *)
(* status code when one is declared, otherwise the entry under "default"   *)
(* when one is declared, otherwise the call fails with UnexpectedStatus    *)
(* reporting the declared status codes; a typed result is built from the   *)
(* schema of the selected entry.                                           *)
(***************************************************************************)
C14_StatusLookup ==
  Ran("status") =>
    /\ SelectedEntry = "" =>
          /\ FailedIn("status") /\ UnexpectedStatus(failure)
          /\ Range(failure.arg) = DOMAIN operation.responses
    /\ SelectedEntry # "" =>
          /\ ~FailedIn("status")
          /\ TypedResult => ResultSchema = EntrySchema(SelectedEntry)

\* {200: A, default: B}: status 404 resolved to B
C14_Witness ==
  /\ TypedResult /\ Received = "404" /\ ~Declared("404")
  /\ SelectedEntry = "default" /\ ResultSchema = "B"


DecodeStages == {"received", "parsed", "unmarshalled"}
StagesFired == {stages[j].stage : j \in 1..Len(stages)}
EmptyResult == ret = <<"None">>

(***************************************************************************)
(* C15: a response with status 204 is never decoded (no received, parsed   *)
(* or unmarshalled stage, no JSON parse, no model construction) and the    *)
(* call returns the empty result, whatever the content-type header and     *)
(* whatever response entries are declared.                                 *)
(***************************************************************************)
C15_NoContent ==
  (Ran("send") /\ Received = "204") =>
    /\ pc # "Failed"
    /\ StagesFired \cap DecodeStages = {}
    /\ ~Ran("decode") => ret = <<>>
    /\ Ran("decode") => (pc = "Done" /\ EmptyResult)


\* the media types the matched status entry declares
DeclaredMedia == DOMAIN operation.responses[SelectedEntry].content
\* the received content type with any ";charset=..." suffix stripped
Stripped == partition0(result.content_type)
\* the declared wildcard of the received primary type
Wildcard == generic_type(result.content_type)
\* the media type the claim selects, NoContentType when there is none
GoverningMedia ==
  IF Stripped \in DeclaredMedia THEN Stripped
  ELSE IF Wildcard \in DeclaredMedia THEN Wildcard
  ELSE NoContentType
UnexpectedContentType(f) == f.exc \in {"RuntimeError", "NotImplementedError"}

(***************************************************************************)
(* C16: within the matched status entry the governing media type is the    *)
(* exact match of the received content type with any ";charset=..." suffix *)
(* stripped, otherwise a declared wildcard "type/*" of the received        *)
(* primary type, otherwise the call fails with UnexpectedContentType; a    *)
(* received "application/json; charset=utf-8" against a declared           *)
(* application/json is decoded as JSON with that entry's schema.           *)
(***************************************************************************)
C16_MediaLookup ==
  (Ran("decode") /\ Received # "204" /\ result.content_type.present
   /\ ~result.content_type.caps /\ result.text = "valid") =>
    /\ GoverningMedia = NoContentType =>
          (FailedIn("decode") /\ UnexpectedContentType(failure))
    /\ GoverningMedia = ApplicationJson =>
          /\ TypedResult
          /\ ResultSchema = operation.responses[SelectedEntry].content[ApplicationJson]
    /\ GoverningMedia \notin {NoContentType, ApplicationJson} =>
          ~(FailedIn("decode") /\ failure.msg = "Unexpected content type")


NotRequiredPath(p) == p.in_ = "path" /\ p.required # "True"

(***************************************************************************)
(* C19: loading a parameter whose location is path succeeds only when its  *)
(* required flag is true; a path parameter with required false or with no  *)
(* required flag fails the load with a specification error, parameters of  *)
(* every other location load with any required flag, and no loaded         *)
(* operation has a non-required path parameter.                            *)
(***************************************************************************)
C19_PathRequired ==
  /\ \A j \in 1..Len(loader.parsed) : ~NotRequiredPath(loader.parsed[j])
  /\ loader.pc = "Failed" =>
        /\ loader.error.exc = "SpecError"
        /\ NotRequiredPath(NextRaw)
  /\ (loader.pc = "Loaded" /\ loader # NotLoading) =>
        /\ operation.parameters = OrEmpty(loader.raw)
        /\ \A j \in 1..Len(operation.parameters) :
              ~NotRequiredPath(operation.parameters[j])

\* a query parameter without a required flag loaded, then a path parameter
\* without one failed the load
C19_Witness ==
  /\ loader.pc = "Failed" /\ Len(loader.parsed) = 1
  /\ loader.parsed[1].in_ = "query" /\ loader.parsed[1].required = "None"
  /\ NextRaw.in_ = "path" /\ NextRaw.required = "None"


BindingSteps == {"security", "parameters", "body"}
MatchingSteps == {"status", "decode"}
NothingReceived == result = Envelope("", NoContentType, "")
NothingReturned == ret = <<>>

(***************************************************************************)
(* C20: failure is terminal and precedes the transport.  When security     *)
(* binding, parameter binding or body encoding fails, the transport is     *)
(* never invoked for the call; when status or content-type matching fails  *)
(* no result is returned; a failed call takes no further step, so none     *)
(* reports a failure and afterwards sends a request or returns a result.   *)
(***************************************************************************)
C20_FailureTerminal ==
  /\ [](pc = "Failed" =>
          /\ failure # NoFailure /\ NothingReturned
          /\ \A step \in BindingSteps :
                FailedIn(step) => (~Ran("send") /\ NothingReceived)
          /\ \A step \in MatchingSteps :
                FailedIn(step) => (Ran("send") /\ ~TypedResult))
  /\ [](failure # NoFailure => pc = "Failed")
  /\ [][pc # "Failed"]_vars

\* body encoding failed after security and parameter binding: nothing sent
C20_Witness ==
  /\ FailedIn("body") /\ Ran("security") /\ Ran("parameters")
  /\ failure.exc = "TypeError" /\ ~Ran("send") /\ NothingReceived


StageNames == [j \in 1..Len(stages) |-> stages[j].stage]
\* the structured value of the caller's data
Structured == IF data = "model" THEN "dict" ELSE data
\* the call sent a JSON body and returned the model of a JSON response
JsonRoundTrip ==
  /\ impl = "v20" /\ pc = "Done"
  /\ BodyDeclared /\ data \in {"dict", "list", "model"} /\ TypedResult

(***************************************************************************)
(* C18: in a call of the Swagger 2.0 binder that sends a JSON body and     *)
(* receives a JSON response, the plugin stages fire in the order           *)
(* marshalled, sending, (transport), received, parsed, unmarshalled, each  *)
(* once and keyed by the operationId, and each step consumes the output of *)
(* the step before it: marshalled the structured value, sending the        *)
(* serialized bytes, received the raw text, parsed the parsed value,       *)
(* unmarshalled the constructed model, whose output is the result.         *)
(***************************************************************************)
C18_StageOrder ==
  /\ (impl = "v20" /\ ~Ran("send")) => StagesFired \cap DecodeStages = {}
  /\ (impl = "v20" /\ ~Ran("body")) => stages = <<>>
  /\ (impl = "v20" /\ Ran("send") /\ ~Ran("decode")
       /\ BodyDeclared /\ data \in {"dict", "list", "model"}) =>
        StageNames = <<"marshalled", "sending">>
  /\ JsonRoundTrip =>
        /\ StageNames = <<"marshalled", "sending", "received", "parsed", "unmarshalled">>
        /\ \A j \in 1..Len(stages) : stages[j].operationId = operation.operationId
        /\ stages[1].value = <<Structured>>
        /\ stages[2].value = <<"json", "marshalled", Structured>>
        /\ req.content = <<"sending", "json", "marshalled", Structured>>
        /\ stages[3].value = <<result.text>>
        /\ stages[4].value = <<"loads", "received", result.text>>
        /\ stages[5].value =
             <<"model", EntrySchema(SelectedEntry), "parsed", "loads", "received",
               result.text>>
        /\ ret = <<"unmarshalled">> \o stages[5].value

C18_Witness ==
  /\ JsonRoundTrip /\ data = "model" /\ Len(stages) = 5
  /\ ret = <<"unmarshalled", "model", "A", "parsed", "loads", "received", "valid">>


\* the request a call assembles alone from its own arguments: its first k
\* steps applied in order to a new request
RECURSIVE Alone(_, _)
Alone(call, k) ==
  IF k = 0 THEN [req |-> NewRequest(root.path.template), failure |-> NoFailure]
  ELSE call_step(call, call.log[k], Alone(call, k - 1).req)

SharedUntouched == operation' = operation /\ root' = root /\ security' = security

(***************************************************************************)
(* C17: concurrent calls on the same operation and specification do not    *)
(* interfere.  Under every interleaving a call's assembled request (url,   *)
(* query, headers, cookies, body) is the one its own credentials,          *)
(* parameters and data give when the call runs alone, and no step of any   *)
(* call modifies the shared operation, path or specification objects       *)
(* (parameter lists, security lists, path template).                       *)
(***************************************************************************)
C17_NoInterference ==
  /\ [][SharedUntouched]_vars
  /\ [](\A c \in DOMAIN calls :
          /\ calls[c].req = Alone(calls[c], Len(calls[c].log)).req
          /\ calls[c].failure = Alone(calls[c], Len(calls[c].log)).failure
          /\ \A d \in DOMAIN calls :
                (/\ call_security(calls[c]) = call_security(calls[d])
                 /\ calls[c].parameters = calls[d].parameters
                 /\ calls[c].data = calls[d].data
                 /\ calls[c].log = calls[d].log) => calls[c].req = calls[d].req)

\* two calls with different parameters and data, both sent, one started
\* before the other had finished
C17_Witness ==
  /\ Len(calls) >= 2
  /\ calls[1].pc = "Sent" /\ calls[2].pc = "Sent"
  /\ calls[1].parameters # calls[2].parameters /\ calls[1].data # calls[2].data
  /\ calls[1].req # calls[2].req


\* the scheme of the resolved credential
ResolvedScheme == root.securityDefinitions[resolved[1].k]
\* security binding resolved an apiKey credential with location cookie
CookieCredential ==
  /\ impl = "v20" /\ Ran("security") /\ resolved # <<>>
  /\ ResolvedScheme.type = "apiKey" /\ ResolvedScheme.in_ = "cookie"

(***************************************************************************)
(* C21: in the Swagger 2.0 binder an apiKey credential with location       *)
(* cookie replaces the whole cookie map with the single entry              *)
(* {wire name: value}; security binding runs before parameter binding, so  *)
(* the request handed to the transport holds that credential cookie        *)
(* together with every cookie-location parameter the caller supplied       *)
(* (under distinct names): the security step discards no parameter cookie. *)
(***************************************************************************)
C21_CookieCredentialKept ==
  CookieCredential =>
    /\ log[1] = "security"
    /\ ~Ran("parameters") => req.cookies = (ResolvedScheme.name :> resolved[1].v)
    /\ Ran("send") =>
          /\ DOMAIN req.cookies = {ResolvedScheme.name} \cup SuppliedAt("cookie")
          /\ req.cookies[ResolvedScheme.name] = resolved[1].v
          /\ \A n \in SuppliedAt("cookie") : req.cookies[n] = ParamValue(n)

\* the request was sent with the credential cookie and a parameter cookie
C21_Witness ==
  /\ CookieCredential /\ Ran("send")
  /\ "b" \in SuppliedAt("cookie") /\ ResolvedScheme.name # "b"
  /\ DOMAIN req.cookies = {ResolvedScheme.name, "b"}

====
